---- MODULE Spec2Model ----
(***************************************************************************)
(* Model of the GPU telemetry endpoint (GET /api/gpu): the probe order,    *)
(* the three adapters (nvidia-smi, amd-smi, CPU) and the response          *)
(* envelope, together with the text and JSON normalisation the adapters    *)
(* perform.  Text is modelled as sequences of one-character strings so     *)
(* that trim, split and parseInt are computed as the code computes them.   *)
(***************************************************************************)
EXTENDS Integers, Sequences, FiniteSets, TLC

(***************************************************************************)
(* Bounds of the model.                                                    *)
(***************************************************************************)
MaxLines == 2
MaxStatic == 2
MaxMetric == 2

(***************************************************************************)
(* JavaScript values.  Every value is a record of the same shape so that   *)
(* values of different JavaScript types can be compared.                   *)
(*   t = "str"  : a string, s its characters                               *)
(*   t = "num"  : the finite number n / d                                  *)
(*   t = "nan"  : NaN                                                      *)
(*   t = "undefined", t = "null"                                           *)
(***************************************************************************)
Str(chars) == [t |-> "str", s |-> chars, n |-> 0, d |-> 1]
Num(k) == [t |-> "num", s |-> <<>>, n |-> k, d |-> 1]
Ratio(a, b) == [t |-> "num", s |-> <<>>, n |-> a, d |-> b]
NaN == [t |-> "nan", s |-> <<>>, n |-> 0, d |-> 1]
Undefined == [t |-> "undefined", s |-> <<>>, n |-> 0, d |-> 1]
Null == [t |-> "null", s |-> <<>>, n |-> 0, d |-> 1]

IsFinite(v) == v.t = "num"
IsNullish(v) == v.t \in {"undefined", "null"}
IsZero(v) == v.t = "num" /\ v.n = 0

(***************************************************************************)
(* Text helpers: String.prototype.trim, String.prototype.split, String().  *)
(***************************************************************************)
Digits == <<"0", "1", "2", "3", "4", "5", "6", "7", "8", "9">>
IsSpace(c) == c \in {" ", "\n"}
IsDigit(c) == \E k \in 1..10 : Digits[k] = c
DigitVal(c) == (CHOOSE k \in 1..10 : Digits[k] = c) - 1

\* The text without its leading / trailing white space.
TrimStart(s) ==
  LET keep == {i \in 1..Len(s) : ~IsSpace(s[i])}
  IN IF keep = {} THEN <<>>
     ELSE SubSeq(s, CHOOSE i \in keep : \A j \in keep : i <= j, Len(s))

TrimEnd(s) ==
  LET keep == {i \in 1..Len(s) : ~IsSpace(s[i])}
  IN IF keep = {} THEN <<>>
     ELSE SubSeq(s, 1, CHOOSE i \in keep : \A j \in keep : i >= j)

Trim(s) == TrimEnd(TrimStart(s))

\* s.split(sep) for a non-empty separator: the separators are taken left to
\* right without overlap; there is always at least one part.
RECURSIVE SplitFrom(_, _, _, _)
SplitFrom(s, sep, hits, from) ==
  LET later == {h \in hits : h >= from}
  IN IF later = {} THEN <<SubSeq(s, from, Len(s))>>
     ELSE LET h == CHOOSE x \in later : \A y \in later : x <= y
          IN <<SubSeq(s, from, h - 1)>> \o SplitFrom(s, sep, hits, h + Len(sep))

Split(s, sep) ==
  LET hits == {i \in 1..(Len(s) - Len(sep) + 1) : SubSeq(s, i, i + Len(sep) - 1) = sep}
  IN SplitFrom(s, sep, hits, 1)

RECURSIVE NatToChars(_)
NatToChars(k) ==
  IF k < 10 THEN <<Digits[k + 1]>>
  ELSE Append(NatToChars(k \div 10), Digits[(k % 10) + 1])

\* String(v)
ToStr(v) ==
  CASE v.t = "str" -> v.s
    [] v.t = "num" -> IF v.n < 0 THEN <<"-">> \o NatToChars(0 - v.n) ELSE NatToChars(v.n)
    [] v.t = "nan" -> <<"N", "a", "N">>
    [] v.t = "null" -> <<"n", "u", "l", "l">>
    [] OTHER -> <<"u", "n", "d", "e", "f", "i", "n", "e", "d">>

(***************************************************************************)
(* parseInt / parseFloat on the string form of a value: leading white      *)
(* space is skipped, an optional sign is read, then the longest prefix of  *)
(* decimal digits; no digit gives NaN.  The texts of this model contain    *)
(* no ".", exponent or radix prefix, so parseFloat reads the same prefix.  *)
(***************************************************************************)
RECURSIVE DigitPrefix(_, _, _)
DigitPrefix(s, acc, seen) ==
  IF s # <<>> /\ IsDigit(Head(s))
  THEN DigitPrefix(Tail(s), acc * 10 + DigitVal(Head(s)), TRUE)
  ELSE [val |-> acc, seen |-> seen]

ParseDecimal(chars) ==
  LET body == TrimStart(chars)
      neg == body # <<>> /\ Head(body) = "-"
      signed == body # <<>> /\ Head(body) \in {"-", "+"}
      r == DigitPrefix(IF signed THEN Tail(body) ELSE body, 0, FALSE)
  IN IF r.seen THEN Num(IF neg THEN 0 - r.val ELSE r.val) ELSE NaN

parseInt(v) == ParseDecimal(ToStr(v))
parseFloat(v) == ParseDecimal(ToStr(v))

\* a || b and a ?? b
IsFalsy(v) ==
  \/ v.t \in {"undefined", "null", "nan"}
  \/ v.t = "num" /\ v.n = 0
  \/ v.t = "str" /\ v.s = <<>>
OrElse(a, b) == IF IsFalsy(a) THEN b ELSE a
Coalesce(a, b) == IF IsNullish(a) THEN b ELSE a

\* amdParseInt / amdParseFloat
amdParseInt(value) ==
  LET n == parseInt(Str(ToStr(Coalesce(value, Str(<<"0">>)))))
  IN IF IsFinite(n) THEN n ELSE Num(0)

amdParseFloat(value) ==
  LET n == parseFloat(Str(ToStr(Coalesce(value, Str(<<"0">>)))))
  IN IF IsFinite(n) THEN n ELSE Num(0)

(***************************************************************************)
(* Device records.  The nested objects of the code (utilization.gpu,       *)
(* memory.total, ...) are flattened into one record.                       *)
(***************************************************************************)
NumericFields ==
  {"index", "temperature", "utilGpu", "utilMemory", "memTotal", "memFree",
   "memUsed", "powerDraw", "powerLimit", "clockGraphics", "clockMemory", "fanSpeed"}

\* The fields the amd-smi adapter derives from the metric query.
TelemetryFields ==
  {"temperature", "utilGpu", "utilMemory", "memTotal", "memFree", "memUsed",
   "powerDraw", "clockGraphics", "clockMemory", "fanSpeed"}

(***************************************************************************)
(* nvidia-smi adapter: getGpuStats applied to the stdout of the tool.      *)
(***************************************************************************)
Comma == <<",", " ">>
Newline == <<"\n">>

\* const [index, name, ...] = line.split(', ').map(item => item.trim())
FieldOf(parts, k) == IF k <= Len(parts) THEN Str(Trim(parts[k])) ELSE Undefined

ParseGpuLine(line) ==
  LET parts == Split(line, Comma)
  IN [index |-> parseInt(FieldOf(parts, 1)),
      name |-> FieldOf(parts, 2),
      driverVersion |-> FieldOf(parts, 3),
      temperature |-> parseInt(FieldOf(parts, 4)),
      utilGpu |-> parseInt(FieldOf(parts, 5)),
      utilMemory |-> parseInt(FieldOf(parts, 6)),
      memTotal |-> parseInt(FieldOf(parts, 7)),
      memFree |-> parseInt(FieldOf(parts, 8)),
      memUsed |-> parseInt(FieldOf(parts, 9)),
      powerDraw |-> parseFloat(FieldOf(parts, 10)),
      powerLimit |-> parseFloat(FieldOf(parts, 11)),
      clockGraphics |-> parseInt(FieldOf(parts, 12)),
      clockMemory |-> parseInt(FieldOf(parts, 13)),
      fanSpeed |-> OrElse(parseInt(FieldOf(parts, 14)), Num(0))]

\* stdout.trim().split('\n').map(line => ...)
getGpuStats(stdout) ==
  LET lines == Split(Trim(stdout), Newline)
  IN [k \in 1..Len(lines) |-> ParseGpuLine(lines[k])]

(***************************************************************************)
(* amd-smi adapter: getAMDGpuStats applied to the two JSON documents of    *)
(* the command "amd-smi static --json && echo ; && amd-smi metric --json". *)
(* A document is what JSON.parse makes of one part of stdout:              *)
(*   shape "array"       a bare array of entries                           *)
(*   shape "wrapped"     an object whose gpu_data is an array of entries   *)
(*   shape "other"       any other JSON value                              *)
(*   shape "unparseable" JSON.parse throws                                 *)
(* An entry holds the leaves the code reads; a leaf whose path is missing  *)
(* at any level is Undefined (every access is optional-chained).           *)
(***************************************************************************)
\* Array.isArray(x) ? x : Array.isArray(x?.gpu_data) ? x.gpu_data : []
GpuArrayOf(doc) == IF doc.shape \in {"array", "wrapped"} THEN doc.items ELSE <<>>

EmptyMetric ==
  [total_vram |-> Undefined, used_vram |-> Undefined, free_visible_vram |-> Undefined,
   hotspot |-> Undefined, edge |-> Undefined, gfx_activity |-> Undefined,
   socket_power |-> Undefined, gfx_clk |-> Undefined, mem_clk |-> Undefined,
   fan_usage |-> Undefined]

\* The join with the device index read as a one-based position.
MetricAtOneBased(metricGpus, i) ==
  IF i.n >= 1 /\ i.n <= Len(metricGpus) THEN metricGpus[i.n] ELSE EmptyMetric

\* metricGpus[i] || {}
MetricAt(metricGpus, i) ==
  IF i.n >= 0 /\ i.n < Len(metricGpus) THEN metricGpus[i.n + 1] ELSE EmptyMetric

\* mem_total > 0 ? (mem_used / mem_total) * 100 : 0
MemUtilization(mem_used, mem_total) ==
  IF mem_total.n > 0 THEN Ratio(mem_used.n * 100, mem_total.n) ELSE Num(0)

\* 'AMD GPU' and 'N/A'
DefaultAmdName == Str(<<"A", "M", "D", " ", "G", "P", "U">>)
DefaultDriverVersion == Str(<<"N", "/", "A">>)

AmdRecord(d, metricGpus) ==
  LET i == amdParseInt(d.gpu)
      gpu_data == MetricAt(metricGpus, i)
      mem_total == amdParseFloat(gpu_data.total_vram)
      mem_used == amdParseFloat(gpu_data.used_vram)
      mem_free == amdParseFloat(gpu_data.free_visible_vram)
  IN [index |-> i,
      name |-> Coalesce(d.market_name, DefaultAmdName),
      driverVersion |-> Coalesce(d.driver_version, DefaultDriverVersion),
      temperature |-> amdParseInt(Coalesce(Coalesce(gpu_data.hotspot, gpu_data.edge), Num(0))),
      utilGpu |-> amdParseInt(Coalesce(gpu_data.gfx_activity, Num(0))),
      utilMemory |-> MemUtilization(mem_used, mem_total),
      memTotal |-> mem_total,
      memFree |-> mem_free,
      memUsed |-> mem_used,
      powerDraw |-> amdParseFloat(Coalesce(gpu_data.socket_power, Num(0))),
      powerLimit |-> amdParseFloat(Coalesce(d.max_power, Num(0))),
      clockGraphics |-> amdParseInt(Coalesce(gpu_data.gfx_clk, Num(0))),
      clockMemory |-> amdParseInt(Coalesce(gpu_data.mem_clk, Num(0))),
      fanSpeed |-> amdParseFloat(Coalesce(gpu_data.fan_usage, Num(0)))]

\* gpus.filter(g => Number.isFinite(g.index))
IndexIsFinite(g) == IsFinite(g.index)

\* parts = stdout.split(';'); parts[0] and parts[1] go through JSON.parse
getAMDGpuStats(parts) ==
  IF Len(parts) < 2 THEN <<>>
  ELSE IF parts[1].shape = "unparseable" \/ parts[2].shape = "unparseable" THEN <<>>
  ELSE LET staticGpus == GpuArrayOf(parts[1])
           metricGpus == GpuArrayOf(parts[2])
           gpus == [k \in 1..Len(staticGpus) |-> AmdRecord(staticGpus[k], metricGpus)]
       IN SelectSeq(gpus, IndexIsFinite)

\* The shell chain a && echo ";" && b exits 0 only when both tools do.
ShellChainOk(staticOk, metricOk) == staticOk /\ metricOk

(***************************************************************************)
(* CPU adapter: getCpuStats.  ok = systeminformation.cpu() resolved.       *)
(***************************************************************************)
NullCpu == [isNull |-> TRUE, name |-> <<>>, cores |-> Num(0), speed |-> Num(0), temperature |-> Num(0)]

\* getCpuStats without its try/catch.
getCpuStatsUncaught(ok, cpuData) ==
  [threw |-> ~ok,
   value |-> IF ok
             THEN [isNull |-> FALSE,
                   name |-> cpuData.manufacturer \o <<" ">> \o cpuData.brand,
                   cores |-> cpuData.cores,
                   speed |-> cpuData.speed,
                   temperature |-> OrElse(cpuData.temp, Num(0))]
             ELSE NullCpu]

getCpuStats(ok, cpuData) ==
  IF ok
  THEN [threw |-> FALSE,
        value |-> [isNull |-> FALSE,
                   name |-> cpuData.manufacturer \o <<" ">> \o cpuData.brand,
                   cores |-> cpuData.cores,
                   speed |-> cpuData.speed,
                   temperature |-> OrElse(cpuData.temp, Num(0))]]
  ELSE [threw |-> FALSE, value |-> NullCpu]

(***************************************************************************)
(* What the tools can print.                                               *)
(***************************************************************************)
T_NA == <<"N", "/", "A">>

\* One well-formed nvidia-smi row: the 14 fields of --query-gpu.
BaseRow ==
  << <<"0">>, <<"R", "T", "X">>, <<"5", "3", "5">>, <<"4", "5">>, <<"1", "2">>,
     <<"3">>, <<"9", "0">>, <<"5", "0">>, <<"4", "0">>, <<"1", "2", "0">>,
     <<"4", "5", "0">>, <<"2", "5">>, <<"9", "9">>, <<"5", "5">> >>

\* Positions of the row where a malformed text is tried, and the texts.
MalformedAt == {1, 4, 10, 14}
BadTexts == {T_NA, <<>>}
ShortLens == {3}

RowChoices ==
  {BaseRow}
    \cup {[BaseRow EXCEPT ![k] = b] : k \in MalformedAt, b \in BadTexts}
    \cup {SubSeq(BaseRow, 1, n) : n \in ShortLens}

RowLists == UNION {[1..n -> RowChoices] : n \in 0..MaxLines}

RECURSIVE JoinFields(_)
JoinFields(row) ==
  IF row = <<>> THEN <<>>
  ELSE IF Len(row) = 1 THEN row[1]
  ELSE row[1] \o Comma \o JoinFields(Tail(row))

\* --format=csv,noheader,nounits: one line per device, each ended by "\n".
RECURSIVE NvidiaSmiStdout(_)
NvidiaSmiStdout(rows) ==
  IF rows = <<>> THEN <<>>
  ELSE JoinFields(Head(rows)) \o Newline \o NvidiaSmiStdout(Tail(rows))

GpuLeaves == {Undefined, Str(<<"0">>), Num(1), Str(<<"-", "1">>), Str(T_NA)}
NameLeaves == {Undefined, Str(<<"M", "I", "3", "0", "0">>)}

\* Static entries: every index leaf with a full identity, and index "0" with
\* every other leaf missing.
StaticEntries ==
  {[gpu |-> g, market_name |-> m, driver_version |-> Str(<<"6">>), max_power |-> Num(750)] :
     g \in GpuLeaves, m \in NameLeaves \ {Undefined}}
    \cup {[gpu |-> Str(<<"0">>), market_name |-> Undefined, driver_version |-> Undefined,
           max_power |-> Undefined]}

GoodMetric ==
  [total_vram |-> Num(200), used_vram |-> Num(50), free_visible_vram |-> Str(<<"1", "5", "0">>),
   hotspot |-> Num(61), edge |-> Num(48), gfx_activity |-> Str(<<"9", "7">>),
   socket_power |-> Num(300), gfx_clk |-> Num(21), mem_clk |-> Num(13),
   fan_usage |-> Num(30)]

MetricEntries ==
  {EmptyMetric, GoodMetric,
   [GoodMetric EXCEPT !.hotspot = Str(T_NA), !.total_vram = Null, !.gfx_clk = Undefined]}

EmptyDoc(shape) == [shape |-> shape, items |-> <<>>]

DocsOf(entries, max) ==
  {EmptyDoc("other"), EmptyDoc("unparseable")}
    \cup {[shape |-> sh, items |-> it] :
            sh \in {"array", "wrapped"},
            it \in UNION {[1..n -> entries] : n \in 0..max}}

StaticDocs == DocsOf(StaticEntries, MaxStatic)
MetricDocs == DocsOf(MetricEntries, MaxMetric)

CpuDatas ==
  {[manufacturer |-> <<"A">>, brand |-> <<"Z">>, cores |-> Num(8), speed |-> Num(3), temp |-> t] :
     t \in {Undefined, Num(55)}}

(***************************************************************************)
(* The request handler GET as a state machine.  pc is the await the        *)
(* handler is suspended at.                                                *)
(***************************************************************************)
VARIABLES pc, isWindows, inflight, hung, started, probeA, probeB, lastRun, response

vars == <<pc, isWindows, inflight, hung, started, probeA, probeB, lastRun, response>>

NoRun ==
  [adapter |-> "none", rejected |-> FALSE, rows |-> <<>>, staticOk |-> FALSE,
   metricOk |-> FALSE, sdoc |-> EmptyDoc("other"), mdoc |-> EmptyDoc("other"),
   cpuOk |-> FALSE]

NoResponse ==
  [returned |-> FALSE, status |-> 0, hasNvidiaSmi |-> FALSE, hasAmdSmi |-> FALSE,
   gpus |-> <<>>, cpu |-> <<>>, error |-> <<>>]

\* NextResponse.json({hasNvidiaSmi: true, hasAmdSmi: false, gpus})
NvidiaEnvelope(gpus) ==
  [returned |-> TRUE, status |-> 200, hasNvidiaSmi |-> TRUE, hasAmdSmi |-> FALSE,
   gpus |-> gpus, cpu |-> <<>>, error |-> <<>>]

\* The amd-smi envelope with the nvidia-smi flag left set.
AmdEnvelopeKeepsNvidiaFlag(gpus) ==
  [returned |-> TRUE, status |-> 200, hasNvidiaSmi |-> TRUE, hasAmdSmi |-> TRUE,
   gpus |-> gpus, cpu |-> <<>>, error |-> <<>>]

\* NextResponse.json({hasNvidiaSmi: false, hasAmdSmi: true, gpus})
AmdEnvelope(gpus) ==
  [returned |-> TRUE, status |-> 200, hasNvidiaSmi |-> FALSE, hasAmdSmi |-> TRUE,
   gpus |-> gpus, cpu |-> <<>>, error |-> <<>>]

\* NextResponse.json({hasNvidiaSmi: false, hasAmdSmi: false, gpus: [], cpu})
CpuEnvelope(cpu) ==
  [returned |-> TRUE, status |-> 200, hasNvidiaSmi |-> FALSE, hasAmdSmi |-> FALSE,
   gpus |-> <<>>, cpu |-> <<cpu>>, error |-> <<>>]

\* The catch block without its { status: 500 }.
ErrorEnvelopeStatusOk(message) ==
  [returned |-> TRUE, status |-> 200, hasNvidiaSmi |-> FALSE, hasAmdSmi |-> FALSE,
   gpus |-> <<>>, cpu |-> <<>>, error |-> <<"Failed to fetch GPU stats: " \o message>>]

\* the catch block of GET
ErrorEnvelope(message) ==
  [returned |-> TRUE, status |-> 500, hasNvidiaSmi |-> FALSE, hasAmdSmi |-> FALSE,
   gpus |-> <<>>, cpu |-> <<>>, error |-> <<"Failed to fetch GPU stats: " \o message>>]

\* The command each step hands to execAsync (or the library call).
NvidiaProbeCmd(win) == IF win THEN "nvidia-smi -L" ELSE "which nvidia-smi"
AmdProbeCmd(win) == IF win THEN "amd-smi version" ELSE "which amd-smi"
NvidiaQueryCmd == "nvidia-smi --query-gpu"
AmdQueryCmd == "amd-smi static --json && echo ; && amd-smi metric --json"
CpuQueryCmd == "systeminformation.cpu"

\* The handler without its amd-smi branch.
StepAfterNvidiaProbeSkipsAmd(ok) == IF ok THEN "getGpuStats" ELSE "getCpuStats"

\* if (hasNvidiaSmi) getGpuStats else checkAmdSmi
StepAfterNvidiaProbe(ok) == IF ok THEN "getGpuStats" ELSE "checkAmdSmi"
\* if (hasAmdSmi) getAMDGpuStats else getCpuStats
StepAfterAmdProbe(ok) == IF ok THEN "getAMDGpuStats" ELSE "getCpuStats"

CmdOf(step, win) ==
  CASE step = "checkNvidiaSmi" -> NvidiaProbeCmd(win)
    [] step = "getGpuStats" -> NvidiaQueryCmd
    [] step = "checkAmdSmi" -> AmdProbeCmd(win)
    [] step = "getAMDGpuStats" -> AmdQueryCmd
    [] OTHER -> CpuQueryCmd

\* await of the next step: the child is spawned and may never exit.
Await(step) ==
  /\ pc' = step
  /\ inflight' = {CmdOf(step, isWindows)}
  /\ started' = Append(started, step)
  /\ \E h \in BOOLEAN : hung' = h

\* return NextResponse.json(...): the call is over and its locals are gone.
Return(envelope) ==
  /\ pc' = "done"
  /\ response' = envelope
  /\ inflight' = {}
  /\ hung' = FALSE
  /\ isWindows' = FALSE
  /\ UNCHANGED started

Init ==
  /\ pc = "idle"
  /\ isWindows = FALSE
  /\ inflight = {}
  /\ hung = FALSE
  /\ started = <<>>
  /\ probeA = "pending"
  /\ probeB = "pending"
  /\ lastRun = NoRun
  /\ response = NoResponse

\* GET is called: os.platform() is read and checkNvidiaSmi awaited.
Begin ==
  /\ pc \in {"idle", "done"}
  /\ \E win \in BOOLEAN :
       /\ isWindows' = win
       /\ inflight' = {CmdOf("checkNvidiaSmi", win)}
  /\ pc' = "checkNvidiaSmi"
  /\ started' = <<"checkNvidiaSmi">>
  /\ \E h \in BOOLEAN : hung' = h
  /\ probeA' = "pending"
  /\ probeB' = "pending"
  /\ lastRun' = NoRun
  /\ response' = NoResponse

\* The child of the current await has settled.
Settled(step) == pc = step /\ ~hung

CheckNvidiaSmiDone(ok) ==
  /\ Settled("checkNvidiaSmi")
  /\ probeA' = IF ok THEN "ok" ELSE "fail"
  /\ Await(StepAfterNvidiaProbe(ok))
  /\ UNCHANGED <<isWindows, probeB, lastRun, response>>

CheckNvidiaSmiOk == CheckNvidiaSmiDone(TRUE)
CheckNvidiaSmiFail == CheckNvidiaSmiDone(FALSE)

GetGpuStatsOk ==
  /\ Settled("getGpuStats")
  /\ \E rows \in RowLists :
       /\ lastRun' = [NoRun EXCEPT !.adapter = "nvidia", !.rows = rows]
       /\ Return(NvidiaEnvelope(getGpuStats(NvidiaSmiStdout(rows))))
  /\ UNCHANGED <<probeA, probeB>>

GetGpuStatsFail ==
  /\ Settled("getGpuStats")
  /\ lastRun' = [NoRun EXCEPT !.adapter = "nvidia", !.rejected = TRUE]
  /\ Return(ErrorEnvelope("Command failed: " \o NvidiaQueryCmd))
  /\ UNCHANGED <<probeA, probeB>>

CheckAmdSmiDone(ok) ==
  /\ Settled("checkAmdSmi")
  /\ probeB' = IF ok THEN "ok" ELSE "fail"
  /\ Await(StepAfterAmdProbe(ok))
  /\ UNCHANGED <<isWindows, probeA, lastRun, response>>

CheckAmdSmiOk == CheckAmdSmiDone(TRUE)
CheckAmdSmiFail == CheckAmdSmiDone(FALSE)

GetAMDGpuStatsOk ==
  /\ Settled("getAMDGpuStats")
  /\ ShellChainOk(TRUE, TRUE)
  /\ \E sdoc \in StaticDocs, mdoc \in MetricDocs :
       /\ lastRun' = [NoRun EXCEPT !.adapter = "amd", !.staticOk = TRUE, !.metricOk = TRUE,
                                   !.sdoc = sdoc, !.mdoc = mdoc]
       /\ Return(AmdEnvelope(getAMDGpuStats(<<sdoc, mdoc>>)))
  /\ UNCHANGED <<probeA, probeB>>

GetAMDGpuStatsFail ==
  /\ Settled("getAMDGpuStats")
  /\ \E sOk \in BOOLEAN, mOk \in BOOLEAN, sdoc \in StaticDocs :
       /\ ~ShellChainOk(sOk, mOk)
       /\ sOk \/ ~mOk
       /\ ~sOk => sdoc = EmptyDoc("other")
       /\ lastRun' = [NoRun EXCEPT !.adapter = "amd", !.rejected = TRUE, !.staticOk = sOk,
                                   !.sdoc = sdoc]
       /\ Return(ErrorEnvelope("Command failed: " \o AmdQueryCmd))
  /\ UNCHANGED <<probeA, probeB>>

GetCpuStatsDone ==
  /\ Settled("getCpuStats")
  /\ \E ok \in BOOLEAN, cpuData \in CpuDatas :
       LET r == getCpuStats(ok, cpuData)
       IN /\ lastRun' = [NoRun EXCEPT !.adapter = "cpu", !.cpuOk = ok]
          /\ Return(IF r.threw THEN ErrorEnvelope("cpu") ELSE CpuEnvelope(r.value))
  /\ UNCHANGED <<probeA, probeB>>

Next ==
  \/ Begin
  \/ CheckNvidiaSmiOk
  \/ CheckNvidiaSmiFail
  \/ GetGpuStatsOk
  \/ GetGpuStatsFail
  \/ CheckAmdSmiOk
  \/ CheckAmdSmiFail
  \/ GetAMDGpuStatsOk
  \/ GetAMDGpuStatsFail
  \/ GetCpuStatsDone

Spec == Init /\ [][Next]_vars

(***************************************************************************)
(* Properties.                                                             *)
(***************************************************************************)
Done == pc = "done"
AdapterSteps == {"getGpuStats", "getAMDGpuStats", "getCpuStats"}
NoFlag == ~response.hasNvidiaSmi /\ ~response.hasAmdSmi

\* C1: the envelope GET returns has at most one capability flag true;
\* hasNvidiaSmi only if the nvidia-smi probe succeeded, hasAmdSmi only if the
\* nvidia-smi probe failed and the amd-smi probe succeeded, and both flags
\* are false when neither probe succeeded.
C1_FlagsFollowProbePriority ==
  response.returned =>
    /\ ~(response.hasNvidiaSmi /\ response.hasAmdSmi)
    /\ (response.hasNvidiaSmi => probeA = "ok")
    /\ (response.hasAmdSmi => probeA = "fail" /\ probeB = "ok")
    /\ (probeA # "ok" /\ probeB # "ok" => NoFlag)

C1_Witness ==
  /\ Done
  /\ response.hasAmdSmi
  /\ probeA = "fail"
  /\ probeB = "ok"
  /\ Len(response.gpus) > 0

\* C2: when an adapter query is rejected after its probe succeeded, GET still
\* returns, and what it returns has both flags false, no device, an error
\* message and a non-success status; an envelope with an error never has a
\* flag set or a device.
C2_QueryFailureGivesErrorEnvelope ==
  /\ lastRun.rejected =>
       /\ Done
       /\ response.returned
       /\ NoFlag
       /\ response.gpus = <<>>
       /\ response.error # <<>>
       /\ response.status >= 400
  /\ response.error # <<>> => NoFlag /\ response.gpus = <<>>

C2_Witness ==
  /\ Done
  /\ lastRun.rejected
  /\ lastRun.adapter = "amd"
  /\ probeB = "ok"
  /\ response.status = 500

\* C3: when the static query of amd-smi succeeds and the metric query fails,
\* the request does not fail: one record per static entry, telemetry zeroed,
\* hasAmdSmi true and no error.
C3_MetricFailureDegrades ==
  (Done /\ lastRun.adapter = "amd" /\ lastRun.staticOk /\ ~lastRun.metricOk) =>
    /\ response.hasAmdSmi
    /\ response.error = <<>>
    /\ Len(response.gpus) = Len(GpuArrayOf(lastRun.sdoc))
    /\ \A k \in 1..Len(response.gpus) :
         \A f \in TelemetryFields : IsZero(response.gpus[k][f])

\* C4: every request eventually returns an envelope, even when a spawned
\* tool never exits: each child is bounded by a timeout, so a request that
\* awaits a child can always take a step (the child exits or it times out).
C4_AwaitIsBounded == (pc \notin {"idle", "done"}) => ENABLED Next

\* C5: within one request at most one child is in flight; the amd-smi probe
\* starts only after the nvidia-smi probe failed; a query starts only after
\* the probe of its vendor succeeded; the CPU query starts only after both
\* probes failed; at most one adapter is invoked and nothing is started
\* after it, whether it succeeds or fails.
C5_StepsSequentialAndExclusive ==
  /\ Cardinality(inflight) <= 1
  /\ \A k \in 1..Len(started) :
       /\ started[k] = "checkNvidiaSmi" => k = 1
       /\ started[k] = "checkAmdSmi" =>
            k = 2 /\ started[1] = "checkNvidiaSmi" /\ probeA = "fail"
       /\ started[k] = "getGpuStats" => probeA = "ok" /\ started[k - 1] = "checkNvidiaSmi"
       /\ started[k] = "getAMDGpuStats" => probeB = "ok" /\ started[k - 1] = "checkAmdSmi"
       /\ started[k] = "getCpuStats" =>
            probeA = "fail" /\ probeB = "fail" /\ started[k - 1] = "checkAmdSmi"
       /\ started[k] \in AdapterSteps => k = Len(started)
  /\ Cardinality({k \in 1..Len(started) : started[k] \in AdapterSteps}) <= 1
  /\ (inflight # {} => inflight = {CmdOf(started[Len(started)], isWindows)})

C5_Witness ==
  /\ Done
  /\ lastRun.rejected
  /\ started = <<"checkNvidiaSmi", "getGpuStats">>

\* C6: when neither tool is detected the request ends with a normal result:
\* both flags false, no device, no error, status 200 and the cpu field set to
\* what the CPU adapter returned (the summary, or null when the CPU query
\* failed inside the adapter).
C6_NoToolIsNormalResult ==
  (Done /\ probeA = "fail" /\ probeB = "fail") =>
    /\ response.returned
    /\ NoFlag
    /\ response.gpus = <<>>
    /\ response.error = <<>>
    /\ response.status = 200
    /\ Len(response.cpu) = 1
    /\ response.cpu[1].isNull = ~lastRun.cpuOk

C6_Witness ==
  /\ Done
  /\ probeA = "fail"
  /\ probeB = "fail"
  /\ ~lastRun.cpuOk
  /\ lastRun.adapter = "cpu"

\* The record field read from position j of an nvidia-smi row.
RowField(j) ==
  CASE j = 1 -> "index"
    [] j = 4 -> "temperature"
    [] j = 10 -> "powerDraw"
    [] OTHER -> "fanSpeed"

\* C7: a single malformed numeric field becomes 0 and leaves the other
\* fields of the record as parsed, so that no numeric field of the record is
\* NaN: for amd-smi every numeric field of every record is finite, and for
\* nvidia-smi the record of a row with one malformed field is the record of
\* the well-formed row with that field 0.
C7_MalformedFieldBecomesZero ==
  Done =>
    /\ lastRun.adapter = "amd" =>
         \A k \in 1..Len(response.gpus) :
           \A f \in NumericFields : IsFinite(response.gpus[k][f])
    /\ (lastRun.adapter = "nvidia" /\ ~lastRun.rejected) =>
         \A k \in 1..Len(lastRun.rows) :
           \A j \in MalformedAt, b \in BadTexts :
             lastRun.rows[k] = [BaseRow EXCEPT ![j] = b] =>
               /\ k <= Len(response.gpus)
               /\ response.gpus[k] =
                    [ParseGpuLine(JoinFields(BaseRow)) EXCEPT ![RowField(j)] = Num(0)]

\* C8: getGpuStats returns exactly one record per line the tool printed, in
\* the order of the lines, for every number of lines including none.
C8_OneRecordPerLine ==
  (Done /\ lastRun.adapter = "nvidia" /\ ~lastRun.rejected) =>
    /\ response.error = <<>>
    /\ Len(response.gpus) = Len(lastRun.rows)
    /\ \A k \in 1..Len(lastRun.rows) :
         response.gpus[k].name = FieldOf(lastRun.rows[k], 2)

\* The index leaf of a static entry resolves to a finite non-negative value.
IndexResolves(leaf) ==
  /\ leaf.t \in {"str", "num"}
  /\ parseInt(leaf).t = "num"
  /\ parseInt(leaf).n >= 0

\* C9: every record getAMDGpuStats returns has a finite non-negative integer
\* index, and a static entry whose index does not resolve to one (missing,
\* non-numeric, negative) produces no record.
C9_IndexFiniteNonNegative ==
  (Done /\ lastRun.adapter = "amd" /\ ~lastRun.rejected) =>
    /\ \A k \in 1..Len(response.gpus) :
         /\ IsFinite(response.gpus[k].index)
         /\ response.gpus[k].index.d = 1
         /\ response.gpus[k].index.n >= 0
    /\ (lastRun.sdoc.shape # "unparseable" /\ lastRun.mdoc.shape # "unparseable") =>
         Len(response.gpus) =
           Cardinality({k \in 1..Len(GpuArrayOf(lastRun.sdoc)) :
                          IndexResolves(GpuArrayOf(lastRun.sdoc)[k].gpu)})

\* The request parsed both amd-smi documents and joined them.
Joined ==
  /\ Done
  /\ lastRun.adapter = "amd"
  /\ ~lastRun.rejected
  /\ lastRun.sdoc.shape # "unparseable"
  /\ lastRun.mdoc.shape # "unparseable"

\* C10: joining N static entries with M < N metric entries does not raise
\* and returns a record for each static entry, in order; the record of an
\* entry whose index i is a position of the metric sequence (0 <= i < M) is
\* the join of the entry with the metric entry at position i, and the record
\* of an entry whose index is out of range has every telemetry field 0.
C10_PositionalJoin ==
  Joined =>
    LET S == GpuArrayOf(lastRun.sdoc)
        M == GpuArrayOf(lastRun.mdoc)
    IN Len(M) < Len(S) =>
         /\ response.hasAmdSmi
         /\ response.error = <<>>
         /\ Len(response.gpus) = Len(S)
         /\ \A k \in 1..Len(S) :
              LET i == response.gpus[k].index.n
              IN /\ response.gpus[k].index = amdParseInt(S[k].gpu)
                 /\ response.gpus[k].name = Coalesce(S[k].market_name, DefaultAmdName)
                 /\ IF 0 <= i /\ i < Len(M)
                    THEN response.gpus[k] =
                           [AmdRecord([S[k] EXCEPT !.gpu = Num(0)], <<M[i + 1]>>)
                              EXCEPT !.index = Num(i)]
                    ELSE \A f \in TelemetryFields : IsZero(response.gpus[k][f])

C10_Witness ==
  /\ Joined
  /\ Len(GpuArrayOf(lastRun.sdoc)) = 2
  /\ Len(GpuArrayOf(lastRun.mdoc)) = 1
  /\ Len(response.gpus) = 2
  /\ response.gpus[1].index = Num(1)
  /\ IsZero(response.gpus[1].temperature)
  /\ response.gpus[2].index = Num(0)
  /\ response.gpus[2].temperature = Num(61)
  /\ response.gpus[2].utilMemory = Ratio(5000, 200)

====
